---- MODULE Spec2Model ----
(***************************************************************************)
(* LinDist3Flow solver (src/src/lindist3flow.py) and the root selection of *)
(* the command-line driver (src/src/main.py).                              *)
(*                                                                         *)
(* Numbers.  Loads, impedances and root voltages are integers; the ohm     *)
(* values are multiples of the impedance bases used, so the per-unit       *)
(* division is exact.  The coupling coefficients involve sqrt(3): a value  *)
(* a + b*sqrt(3) is the pair <<a, b>>, computed exactly: the rounding      *)
(* of numpy float64 arithmetic is not modelled.                            *)
(***************************************************************************)
EXTENDS Integers, Sequences, FiniteSets, TLC

\* ---------------------------------------------------------------- bounds
MaxNodes == 3
MaxCalls == 3
MaxPartial == 4

\* ------------------------------------------------------- exact arithmetic
Zero3 == <<0, 0, 0>>
QZero == <<0, 0>>
QZero3 == <<QZero, QZero, QZero>>

QInt(a) == <<a, 0>>
QAdd(x, y) == <<x[1] + y[1], x[2] + y[2]>>
QScale(x, k) == <<x[1] * k, x[2] * k>>

\* sign of a + b*sqrt(3)
QSign(x) ==
    LET a == x[1]
        b == x[2]
    IN  IF a = 0 /\ b = 0 THEN 0
        ELSE IF a >= 0 /\ b >= 0 THEN 1
        ELSE IF a <= 0 /\ b <= 0 THEN -1
        ELSE IF a > 0 THEN (IF a * a > 3 * b * b THEN 1 ELSE -1)
        ELSE (IF 3 * b * b > a * a THEN 1 ELSE -1)

ISqrt(n) == CHOOSE k \in 0..n : k * k <= n /\ (k + 1) * (k + 1) > n

\* faulty variant: no clamp
QMax0_unclamped(x) == x

\* np.maximum(y, 0), one component
QMax0(x) == IF QSign(x) < 0 THEN QZero ELSE x

\* np.sqrt: nan for a negative value; otherwise the root itself when it is an
\* integer, and else the value kept under the radical.
QSqrt(x) ==
    IF QSign(x) < 0 THEN [nan |-> TRUE, exact |-> FALSE, val |-> QZero]
    ELSE IF x[2] = 0 /\ ISqrt(x[1]) * ISqrt(x[1]) = x[1]
    THEN [nan |-> FALSE, exact |-> TRUE, val |-> <<ISqrt(x[1]), 0>>]
    ELSE [nan |-> FALSE, exact |-> FALSE, val |-> x]

VAdd(u, v) == [i \in 1..3 |-> u[i] + v[i]]
QVAdd(u, v) == [i \in 1..3 |-> QAdd(u[i], v[i])]

RECURSIVE SumSeq(_)
SumSeq(s) == IF s = <<>> THEN 0 ELSE Head(s) + SumSeq(Tail(s))

Reverse(s) == [i \in 1..Len(s) |-> s[Len(s) + 1 - i]]
Range(s) == {s[i] : i \in 1..Len(s)}

\* ------------------------------------------------------------- matrices
Rows(m) == Len(m)
Cols(m) == IF Len(m) = 0 THEN 0 ELSE Len(m[1])
InShape(m, i, j) == i \in 1..Rows(m) /\ j \in 1..Cols(m)

\* line['r_matrix'] / self.z_base, elementwise, any shape
MatDiv(m, z) == [i \in 1..Rows(m) |-> [j \in 1..Cols(m) |-> m[i][j] \div z]]

\* ------------------------------------------------------- coupling model
\* _calc_M_matrices reads r_pu[i, j] and x_pu[i, j] for every i, j in 0..2
CalcReadable(r_pu, x_pu) ==
    \A i \in 1..3 : \A j \in 1..3 : InShape(r_pu, i, j) /\ InShape(x_pu, i, j)

\* faulty variant: the diagonal loses its factor 2
calc_MP_halved(r_pu, x_pu) ==
    << << <<-r_pu[1][1], 0>>, <<r_pu[1][2], -x_pu[1][2]>>, <<r_pu[1][3], x_pu[1][3]>> >>,
       << <<r_pu[2][1], x_pu[2][1]>>, <<-r_pu[2][2], 0>>, <<r_pu[2][3], -x_pu[2][3]>> >>,
       << <<r_pu[3][1], -x_pu[3][1]>>, <<r_pu[3][2], x_pu[3][2]>>, <<-r_pu[3][3], 0>> >> >>

calc_MP(r_pu, x_pu) ==
    << << <<-2 * r_pu[1][1], 0>>, <<r_pu[1][2], -x_pu[1][2]>>, <<r_pu[1][3], x_pu[1][3]>> >>,
       << <<r_pu[2][1], x_pu[2][1]>>, <<-2 * r_pu[2][2], 0>>, <<r_pu[2][3], -x_pu[2][3]>> >>,
       << <<r_pu[3][1], -x_pu[3][1]>>, <<r_pu[3][2], x_pu[3][2]>>, <<-2 * r_pu[3][3], 0>> >> >>

calc_MQ(r_pu, x_pu) ==
    << << <<-2 * x_pu[1][1], 0>>, <<x_pu[1][2], r_pu[1][2]>>, <<x_pu[1][3], -r_pu[1][3]>> >>,
       << <<x_pu[2][1], -r_pu[2][1]>>, <<-2 * x_pu[2][2], 0>>, <<x_pu[2][3], r_pu[2][3]>> >>,
       << <<x_pu[3][1], r_pu[3][1]>>, <<x_pu[3][2], -r_pu[3][2]>>, <<-2 * x_pu[3][3], 0>> >> >>

\* mp @ pk: a 3x3 matrix of a + b*sqrt(3) entries times an integer 3-vector
MatVec(m, v) ==
    [i \in 1..3 |-> QAdd(QAdd(QScale(m[i][1], v[1]), QScale(m[i][2], v[2])),
                         QScale(m[i][3], v[3]))]

\* ------------------------------------------------------------ the inputs
AllBuses == <<"sourcebus", "632", "671", "680", "692">>
UnknownBus == "999"
NodeList(n) == SubSeq(AllBuses, 1, n)

Diag3(a, b, c) == <<<<a, 0, 0>>, <<0, b, 0>>, <<0, 0, c>>>>
MatScale(m, k) == [i \in 1..Rows(m) |-> [j \in 1..Cols(m) |-> m[i][j] * k]]

MatKinds == {"diag", "coupled"}
RMat(kind, s) ==
    IF kind = "diag" THEN MatScale(Diag3(4, 8, 12), s)
    ELSE MatScale(<<<<8, 4, 0>>, <<12, 8, 4>>, <<4, 0, 12>>>>, s)
XMat(kind, s) ==
    IF kind = "diag" THEN MatScale(Diag3(4, 4, 8), s)
    ELSE MatScale(<<<<4, 0, 4>>, <<4, 4, 0>>, <<0, 8, 4>>>>, s)

\* a 2x2 and a 4x4 matrix made from a 3x3 one
Shrink(m) == [i \in 1..2 |-> [j \in 1..2 |-> m[i][j]]]
Grow(m) == [i \in 1..4 |-> [j \in 1..4 |-> IF i <= 3 /\ j <= 3 THEN m[i][j] ELSE 4]]

\* par[i] is the index of the bus feeding bus i, or 0 when no line ends at i
ParentChoices(n) == {par \in [2..n -> 0..n] : \A i \in 2..n : par[i] # i}

LineOf(n, par, kind, i) ==
    [from |-> NodeList(n)[par[i]], to |-> NodeList(n)[i],
     r_matrix |-> RMat(kind, i - 1), x_matrix |-> XMat(kind, i - 1)]

RECURSIVE LinesFrom(_, _, _, _)
LinesFrom(n, par, kind, i) ==
    IF i > n THEN <<>>
    ELSE IF par[i] = 0 THEN LinesFrom(n, par, kind, i + 1)
    ELSE <<LineOf(n, par, kind, i)>> \o LinesFrom(n, par, kind, i + 1)

Defects == {"none", "dup", "from_unknown", "to_unknown",
            "r_small", "r_large", "x_small", "x_large"}

BadLine(n, kind, defect, ls) ==
    IF defect = "dup" THEN ls[1]
    ELSE IF defect = "from_unknown"
    THEN [from |-> UnknownBus, to |-> NodeList(n)[n],
          r_matrix |-> RMat(kind, 1), x_matrix |-> XMat(kind, 1)]
    ELSE [from |-> NodeList(n)[n], to |-> UnknownBus,
          r_matrix |-> RMat(kind, 1), x_matrix |-> XMat(kind, 1)]

Reshape(l, defect) ==
    IF defect = "r_small" THEN [l EXCEPT !.r_matrix = Shrink(@)]
    ELSE IF defect = "r_large" THEN [l EXCEPT !.r_matrix = Grow(@)]
    ELSE IF defect = "x_small" THEN [l EXCEPT !.x_matrix = Shrink(@)]
    ELSE IF defect = "x_large" THEN [l EXCEPT !.x_matrix = Grow(@)]
    ELSE l

\* the line lists a base list gives under one defect
WithDefect(n, kind, defect, ls) ==
    IF defect = "none" THEN {ls}
    ELSE IF defect \in {"from_unknown", "to_unknown"}
    THEN IF n = 0 THEN {}
         ELSE {<<BadLine(n, kind, defect, ls)>> \o ls, ls \o <<BadLine(n, kind, defect, ls)>>}
    ELSE IF ls = <<>> THEN {}
    ELSE IF defect = "dup" THEN {ls \o <<ls[1]>>}
    ELSE {[i \in 1..Len(ls) |-> IF i = 1 THEN Reshape(ls[i], defect) ELSE ls[i]]}

LineLists(n, kind, defects) ==
    UNION {UNION {WithDefect(n, kind, d, ls) : d \in defects} :
           ls \in UNION {{LinesFrom(n, par, kind, 2), Reverse(LinesFrom(n, par, kind, 2))} :
                         par \in ParentChoices(n)}}

\* (v_base_kv, s_base_mva)
Bases == {<<1, 1>>, <<2, 1>>}

\* ---------------------------------------------------------------- state
VARIABLES
    nodes, lines, z_base,                 \* constructor arguments and base
    n_nodes, node_map, children, parents, line_params, order_down, order_up,
    li, queue, order,                     \* constructor: loop index, BFS locals
    load_p_pu, load_q_pu, v_root_pu,      \* solve: arguments
    S_flow, Y_node, k, v_pu,              \* solve: locals and result
    pc, exc,                              \* position, outcome of the last call
    calls_left, memo, s_final, y_final,   \* calls still to make, history
    data, m_nodes, root_found, ri, log, m_pc   \* main.py: the loaded JSON, locals

args == <<nodes, lines, z_base>>
tables == <<n_nodes, node_map, children, parents, line_params, order_down, order_up>>
ctorLocals == <<li, queue, order>>
solveArgs == <<load_p_pu, load_q_pu, v_root_pu>>
solveLocals == <<S_flow, Y_node, k, v_pu>>
history == <<calls_left, memo, s_final, y_final>>
mainVars == <<data, m_nodes, root_found, ri, log, m_pc>>
vars == <<args, tables, ctorLocals, solveArgs, solveLocals, pc, exc, history, mainVars>>

None == "None"
NoArg == <<>>

NodeIndex(nodeArg) ==
    [n \in Range(nodeArg) |-> CHOOSE i \in 1..Len(nodeArg) :
        nodeArg[i] = n /\ \A j \in (i + 1)..Len(nodeArg) : nodeArg[j] # n]
ZBase(v_base_kv, s_base_mva) ==
    ((v_base_kv * 1000) * (v_base_kv * 1000)) \div (s_base_mva * 1000000)

\* main.py is not running
MainOff ==
    /\ data = <<>>
    /\ m_nodes = <<>>
    /\ root_found = FALSE
    /\ ri = 0
    /\ log = <<>>
    /\ m_pc = "off"

\* no solve call was made yet
SolveIdle ==
    /\ load_p_pu = <<>>
    /\ load_q_pu = <<>>
    /\ v_root_pu = <<>>
    /\ S_flow = <<>>
    /\ Y_node = <<>>
    /\ k = 0
    /\ v_pu = <<>>
    /\ memo = <<>>
    /\ s_final = {}
    /\ y_final = {}

\* lindist3flow.py 5-18: the fields set before the line loop
CtorFields(nodeArg, lineArg, v_base_kv, s_base_mva) ==
    [nodes |-> nodeArg,
     lines |-> lineArg,
     z_base |-> ZBase(v_base_kv, s_base_mva),
     n_nodes |-> Len(nodeArg),
     node_map |-> NodeIndex(nodeArg),
     children |-> [n \in Range(nodeArg) |-> <<>>],
     parents |-> [n \in Range(nodeArg) |-> None]]

CtorEntry(nodeArg, lineArg, base, ncalls) ==
    LET f == CtorFields(nodeArg, lineArg, base[1], base[2])
    IN  /\ nodes = f.nodes
        /\ lines = f.lines
        /\ z_base = f.z_base
        /\ n_nodes = f.n_nodes
        /\ node_map = f.node_map
        /\ children = f.children
        /\ parents = f.parents
        /\ line_params = <<>>
        /\ order_down = <<>>
        /\ order_up = <<>>
        /\ li = 1
        /\ queue = <<>>
        /\ order = <<>>
        /\ pc = "ctor_lines"
        /\ exc = "none"
        /\ calls_left = ncalls
        /\ SolveIdle
        /\ MainOff

Init ==
    \E n \in 0..MaxNodes : \E kind \in MatKinds : \E ls \in LineLists(n, kind, Defects) :
        \E base \in Bases : CtorEntry(NodeList(n), ls, base, 1)

\* an exception leaves the constructor: no solver object exists
CtorRaise(e) ==
    /\ pc' = "failed"
    /\ exc' = e
    /\ UNCHANGED <<mainVars, args, tables, ctorLocals, solveArgs, solveLocals, history>>

\* lindist3flow.py 20-28: one iteration of the line loop
CtorLine ==
    /\ pc = "ctor_lines"
    /\ li <= Len(lines)
    /\ LET u == lines[li].from
           v == lines[li].to
       IN  IF u \notin DOMAIN children
           THEN CtorRaise("KeyError")
           ELSE /\ children' = [children EXCEPT ![u] = Append(@, v)]
                /\ parents' = (v :> u) @@ parents
                /\ line_params' = (<<u, v>> :> <<MatDiv(lines[li].r_matrix, z_base),
                                                MatDiv(lines[li].x_matrix, z_base)>>)
                                  @@ line_params
                /\ li' = li + 1
                /\ UNCHANGED <<mainVars, args, n_nodes, node_map, order_down, order_up, queue, order,
                               solveArgs, solveLocals, pc, exc, history>>

\* lindist3flow.py 36-37
CtorTopoStart ==
    /\ pc = "ctor_lines"
    /\ li > Len(lines)
    /\ IF nodes = <<>>
       THEN CtorRaise("IndexError")
       ELSE /\ order' = <<>>
            /\ queue' = <<nodes[1]>>
            /\ pc' = "ctor_bfs"
            /\ UNCHANGED <<mainVars, args, tables, li, solveArgs, solveLocals, exc, history>>

\* faulty variant: the children are not enqueued
TopoQueue_nochildren(u) == Tail(queue)

\* queue after u was popped and its children appended
TopoQueue(u) == Tail(queue) \o children[u]

\* lindist3flow.py 38-42: one iteration of the while loop
CtorTopoStep ==
    /\ pc = "ctor_bfs"
    /\ queue # <<>>
    /\ LET u == Head(queue)
       IN  IF u \notin DOMAIN children
           THEN CtorRaise("KeyError")
           ELSE /\ order' = Append(order, u)
                /\ queue' = TopoQueue(u)
                /\ UNCHANGED <<mainVars, args, tables, li, solveArgs, solveLocals, pc, exc, history>>

\* lindist3flow.py 31-32, 43
CtorFinish ==
    /\ pc = "ctor_bfs"
    /\ queue = <<>>
    /\ order_down' = order
    /\ order_up' = Reverse(order)
    /\ pc' = "ready"
    /\ UNCHANGED <<mainVars, args, n_nodes, node_map, children, parents, line_params, ctorLocals,
                   solveArgs, solveLocals, exc, history>>

\* ---------------------------------------------------------------- solve
\* load matrices of 3 rows and c columns
LoadZero(c) == [p |-> [ph \in 1..3 |-> [j \in 1..c |-> 0]],
                q |-> [ph \in 1..3 |-> [j \in 1..c |-> 0]]]
LoadSingle(i, c) == [p |-> [ph \in 1..3 |-> [j \in 1..c |-> IF ph = i /\ j = c THEN 2 ELSE 0]],
                     q |-> [ph \in 1..3 |-> [j \in 1..c |-> IF ph = i /\ j = c THEN 1 ELSE 0]]]
LoadDistinct(c) == [p |-> [ph \in 1..3 |-> [j \in 1..c |-> j + ph - 1]],
                    q |-> [ph \in 1..3 |-> [j \in 1..c |-> j - ph]]]
LoadChoices(n) ==
    {LoadZero(n)} \cup {LoadSingle(i, n) : i \in 1..3}
        \cup {LoadDistinct(c) : c \in {n - 1, n, n + 1}}
VRootChoices == {NoArg, <<10, 0, -8>>}

\* load_p_pu[:, idx] + 1j * load_q_pu[:, idx]
LoadColumn(idx) == [re |-> [ph \in 1..3 |-> load_p_pu[ph][idx]],
                    im |-> [ph \in 1..3 |-> load_q_pu[ph][idx]]]
CZero3 == [re |-> Zero3, im |-> Zero3]
CAdd(a, b) == [re |-> VAdd(a.re, b.re), im |-> VAdd(a.im, b.im)]

RECURSIVE SumFlows(_, _)
SumFlows(flow, cs) ==
    IF cs = <<>> THEN CZero3 ELSE CAdd(flow[Head(cs)], SumFlows(flow, Tail(cs)))

\* history: the first call's arguments and outcome, and whether a later call
\* had other arguments
SameAsFirst == load_p_pu = memo.p /\ load_q_pu = memo.q /\ v_root_pu = memo.v
Remember(e, out) ==
    IF memo = <<>>
    THEN [p |-> load_p_pu, q |-> load_q_pu, v |-> v_root_pu, exc |-> e, out |-> out,
          varied |-> FALSE]
    ELSE [memo EXCEPT !.varied = @ \/ ~SameAsFirst]

\* an exception leaves solve: nothing is returned, the solver object stays
SolveRaise(e) ==
    /\ pc' = "ready"
    /\ exc' = e
    /\ v_pu' = <<>>
    /\ memo' = Remember(e, <<>>)
    /\ UNCHANGED <<mainVars, args, tables, ctorLocals, solveArgs, S_flow, Y_node, k,
                   calls_left, s_final, y_final>>

FreshFlows == [n \in Range(nodes) |-> CZero3]
\* faulty variant: YNode starts at the nominal squared voltage
FreshY_nominal == [n \in Range(nodes) |-> [ph \in 1..3 |-> QInt(1)]]
\* {n: np.zeros(3) for n in self.nodes}
FreshY == [n \in Range(nodes) |-> QZero3]

\* lindist3flow.py 88-100
SolveCall ==
    /\ m_pc = "off"
    /\ pc = "ready"
    /\ calls_left > 0
    /\ \E ld \in LoadChoices(n_nodes) : \E v \in VRootChoices :
          /\ load_p_pu' = ld.p
          /\ load_q_pu' = ld.q
          /\ v_root_pu' = IF v = NoArg THEN <<1, 1, 1>> ELSE v
    /\ S_flow' = FreshFlows
    /\ Y_node' = FreshY
    /\ k' = 1
    /\ v_pu' = <<>>
    /\ pc' = "backward"
    /\ exc' = "none"
    /\ calls_left' = calls_left - 1
    /\ s_final' = {}
    /\ y_final' = {}
    /\ UNCHANGED <<mainVars, args, tables, ctorLocals, memo>>

\* faulty variants: the sweeps in another order
BackwardSequence_topDown == order_down
ForwardSequence_listOrder == nodes

BackwardSequence == order_up
ForwardSequence == order_down

\* lindist3flow.py 105-114: one iteration of the backward sweep
BackwardStep ==
    /\ pc = "backward"
    /\ k <= Len(BackwardSequence)
    /\ LET node == BackwardSequence[k]
           idx == node_map[node]
       IN  IF idx > Cols(load_p_pu) \/ idx > Cols(load_q_pu)
           THEN SolveRaise("IndexError")
           ELSE IF \E i \in 1..Len(children[node]) : children[node][i] \notin DOMAIN S_flow
           THEN SolveRaise("KeyError")
           ELSE /\ S_flow' = [S_flow EXCEPT
                                 ![node] = CAdd(LoadColumn(idx), SumFlows(S_flow, children[node]))]
                /\ k' = k + 1
                /\ s_final' = s_final \cup {node}
                /\ UNCHANGED <<mainVars, args, tables, ctorLocals, solveArgs, Y_node, v_pu, pc, exc,
                               calls_left, memo, y_final>>

\* faulty variant: the root voltage is not squared
RootY_unsquared(v) == [ph \in 1..3 |-> QInt(v[ph])]

\* v_root_pu ** 2
RootY(v) == [ph \in 1..3 |-> QInt(v[ph] * v[ph])]

\* lindist3flow.py 123
ForwardRoot ==
    /\ pc = "backward"
    /\ k > Len(BackwardSequence)
    /\ Y_node' = [Y_node EXCEPT ![nodes[1]] = RootY(v_root_pu)]
    /\ y_final' = {nodes[1]}
    /\ k' = 1
    /\ pc' = "forward"
    /\ UNCHANGED <<mainVars, args, tables, ctorLocals, solveArgs, S_flow, v_pu, exc,
                   calls_left, memo, s_final>>

\* y_parent + mp @ pk + mq @ qk
ChildY(y_parent, r_pu, x_pu, flow) ==
    QVAdd(QVAdd(y_parent, MatVec(calc_MP(r_pu, x_pu), flow.re)),
          MatVec(calc_MQ(r_pu, x_pu), flow.im))

\* lindist3flow.py 125-143: one iteration of the forward sweep
ForwardStep ==
    /\ pc = "forward"
    /\ k <= Len(ForwardSequence)
    /\ LET node == ForwardSequence[k]
           parent == parents[node]
       IN  IF node = nodes[1]
           THEN /\ k' = k + 1
                /\ UNCHANGED <<mainVars, args, tables, ctorLocals, solveArgs, S_flow, Y_node, v_pu,
                               pc, exc, history>>
           ELSE IF <<parent, node>> \notin DOMAIN line_params
           THEN SolveRaise("KeyError")
           ELSE IF ~CalcReadable(line_params[<<parent, node>>][1],
                                 line_params[<<parent, node>>][2])
           THEN SolveRaise("IndexError")
           ELSE /\ Y_node' = [Y_node EXCEPT
                                 ![node] = ChildY(Y_node[parent],
                                                  line_params[<<parent, node>>][1],
                                                  line_params[<<parent, node>>][2],
                                                  S_flow[node])]
                /\ k' = k + 1
                /\ y_final' = y_final \cup {node}
                /\ UNCHANGED <<mainVars, args, tables, ctorLocals, solveArgs, S_flow, v_pu, pc, exc,
                               calls_left, memo, s_final>>

\* solve returned a voltage matrix
Returned == pc = "ready" /\ exc = "none" /\ v_pu # <<>>

\* np.sqrt(np.maximum(y, 0)), one component
Magnitude(y) == QSqrt(QMax0(y))

\* the node whose column is j
NodeAt(j) == CHOOSE n \in DOMAIN node_map : node_map[n] = j

\* lindist3flow.py 146-150
Recovered == [ph \in 1..3 |-> [j \in 1..n_nodes |-> Magnitude(Y_node[NodeAt(j)][ph])]]

\* faulty variant: solve reverses self.order_down in place
Recover_reversing ==
    /\ pc = "forward"
    /\ k > Len(ForwardSequence)
    /\ v_pu' = Recovered
    /\ pc' = "ready"
    /\ memo' = Remember("none", Recovered)
    /\ order_down' = Reverse(order_down)
    /\ UNCHANGED <<mainVars, args, n_nodes, node_map, children, parents, line_params, order_up,
                   ctorLocals, solveArgs, S_flow, Y_node, k, exc, calls_left, s_final, y_final>>

\* lindist3flow.py 145-152
Recover ==
    /\ pc = "forward"
    /\ k > Len(ForwardSequence)
    /\ v_pu' = Recovered
    /\ pc' = "ready"
    /\ memo' = Remember("none", Recovered)
    /\ UNCHANGED <<mainVars, args, tables, ctorLocals, solveArgs, S_flow, Y_node, k, exc,
                   calls_left, s_final, y_final>>

\* ------------------------------------------------------------- main.py
possible_roots == <<"sourcebus", "source", "650", "rg60">>
MainNames == {"sourcebus", "650", "rg60", "632", "671"}
MainNodeLists ==
    {nl \in UNION {[1..n -> MainNames] : n \in 0..MaxNodes} :
        \A i \in 1..Len(nl) : \A j \in 1..Len(nl) : nl[i] = nl[j] => i = j}

\* the bus the data's lines start from: the best recognized root, else the first
FeedBus(nl) ==
    IF \E i \in 1..Len(possible_roots) : possible_roots[i] \in Range(nl)
    THEN possible_roots[CHOOSE i \in 1..Len(possible_roots) :
             /\ possible_roots[i] \in Range(nl)
             /\ \A j \in 1..(i - 1) : possible_roots[j] \notin Range(nl)]
    ELSE nl[1]
MainLines(nl, shape) ==
    IF Len(nl) < 2 THEN <<>>
    ELSE IF shape = "chain"
    THEN [i \in 1..(Len(nl) - 1) |->
             [from |-> nl[i], to |-> nl[i + 1],
              r_matrix |-> RMat("coupled", i), x_matrix |-> XMat("coupled", i)]]
    ELSE LET rest == SelectSeq(nl, LAMBDA b : b # FeedBus(nl))
         IN  [i \in 1..Len(rest) |->
                 [from |-> FeedBus(nl), to |-> rest[i],
                  r_matrix |-> RMat("coupled", i), x_matrix |-> XMat("coupled", i)]]
\* kW and kvar per phase; the last load is on a bus that is not in the list
MainLoads(nl) ==
    [i \in 1..(Len(nl) + 1) |->
        [bus |-> IF i <= Len(nl) THEN nl[i] ELSE UnknownBus,
         p_load |-> <<1000 * i, 0, 2000>>, q_load |-> <<1000, 0, -1000 * i>>]]
MainData ==
    {[nodes |-> nl, lines |-> MainLines(nl, shape),
      loads |-> IF loaded THEN MainLoads(nl) ELSE <<>>,
      general |-> [s_base_mva |-> 1, v_base_kv_ll |-> 2]] :
        nl \in MainNodeLists, shape \in {"star", "chain"}, loaded \in BOOLEAN}

\* main.py 38-48: the JSON is loaded, nodes = data['nodes']
InitMain ==
    /\ \E d \in MainData : data = d /\ m_nodes = d.nodes
    /\ root_found = FALSE
    /\ ri = 1
    /\ log = <<>>
    /\ m_pc = "roots"
    /\ nodes = <<>> /\ lines = <<>> /\ z_base = 0
    /\ n_nodes = 0 /\ node_map = <<>> /\ children = <<>> /\ parents = <<>>
    /\ line_params = <<>> /\ order_down = <<>> /\ order_up = <<>>
    /\ li = 0 /\ queue = <<>> /\ order = <<>>
    /\ pc = "none" /\ exc = "none" /\ calls_left = 1
    /\ SolveIdle

\* nodes.remove(r): the list without the first occurrence of r
ListRemove(l, r) ==
    LET at == CHOOSE i \in 1..Len(l) : l[i] = r /\ \A j \in 1..(i - 1) : l[j] # r
    IN  SubSeq(l, 1, at - 1) \o SubSeq(l, at + 1, Len(l))
\* faulty variant: r changes places with the first element
MoveToFront_swap(l, r) ==
    [i \in 1..Len(l) |-> IF i = 1 THEN r ELSE IF l[i] = r THEN l[1] ELSE l[i]]

\* nodes.remove(r); nodes.insert(0, r)
MoveToFront(l, r) == <<r>> \o ListRemove(l, r)

\* main.py 50-56: one iteration of the loop over possible_roots
MainRootStep ==
    /\ m_pc = "roots"
    /\ ri <= Len(possible_roots)
    /\ LET r == possible_roots[ri]
       IN  IF r \in Range(m_nodes)
           THEN /\ m_nodes' = MoveToFront(m_nodes, r)
                /\ log' = Append(log, <<"reference", r>>)
                /\ root_found' = TRUE
                /\ m_pc' = "checked"
                /\ UNCHANGED ri
           ELSE /\ ri' = ri + 1
                /\ UNCHANGED <<m_nodes, log, root_found, m_pc>>
    /\ UNCHANGED <<data, args, tables, ctorLocals, solveArgs, solveLocals, pc, exc, history>>

\* main.py 50: the loop ends without a break
MainRootsDone ==
    /\ m_pc = "roots"
    /\ ri > Len(possible_roots)
    /\ m_pc' = "checked"
    /\ UNCHANGED <<data, m_nodes, root_found, ri, log,
                   args, tables, ctorLocals, solveArgs, solveLocals, pc, exc, history>>

\* main.py 58-59: the warning names nodes[0]
MainWarn ==
    /\ m_pc = "checked"
    /\ IF root_found
       THEN m_pc' = "build" /\ UNCHANGED <<log, exc>>
       ELSE IF m_nodes = <<>>
       THEN m_pc' = "crashed" /\ exc' = "IndexError" /\ UNCHANGED log
       ELSE m_pc' = "build" /\ log' = Append(log, <<"warning", m_nodes[1]>>) /\ UNCHANGED exc
    /\ UNCHANGED <<data, m_nodes, root_found, ri,
                   args, tables, ctorLocals, solveArgs, solveLocals, pc, history>>

\* main.py 61-69, 91-96: LinDist3FlowSolver(nodes, lines_processed, ...) is entered
MainConstruct ==
    /\ m_pc = "build"
    /\ LET f == CtorFields(m_nodes, data.lines, data.general.v_base_kv_ll,
                           data.general.s_base_mva)
       IN  /\ nodes' = f.nodes
           /\ lines' = f.lines
           /\ z_base' = f.z_base
           /\ n_nodes' = f.n_nodes
           /\ node_map' = f.node_map
           /\ children' = f.children
           /\ parents' = f.parents
    /\ li' = 1
    /\ pc' = "ctor_lines"
    /\ m_pc' = "solver"
    /\ UNCHANGED <<data, m_nodes, root_found, ri, log, line_params, order_down, order_up,
                   queue, order, solveArgs, solveLocals, exc, history>>

\* main.py 72-88: the loads of the buses of node_map, per unit, column by column
RECURSIVE MapLoads(_, _, _)
MapLoads(loads, acc, s_base_kw) ==
    IF loads = <<>> THEN acc
    ELSE LET load == Head(loads)
             idx == NodeIndex(m_nodes)[load.bus]
         IN  IF load.bus \notin Range(m_nodes)
             THEN MapLoads(Tail(loads), acc, s_base_kw)
             ELSE MapLoads(Tail(loads),
                      [p |-> [ph \in 1..3 |-> [acc.p[ph] EXCEPT
                                                  ![idx] = load.p_load[ph] \div s_base_kw]],
                       q |-> [ph \in 1..3 |-> [acc.q[ph] EXCEPT
                                                  ![idx] = load.q_load[ph] \div s_base_kw]]],
                      s_base_kw)

\* main.py 99: solver.solve(load_p, load_q)
MainSolve ==
    /\ m_pc = "solver"
    /\ pc = "ready"
    /\ LET ld == MapLoads(data.loads, LoadZero(Len(m_nodes)), data.general.s_base_mva * 1000)
       IN  load_p_pu' = ld.p /\ load_q_pu' = ld.q
    /\ v_root_pu' = <<1, 1, 1>>
    /\ S_flow' = FreshFlows
    /\ Y_node' = FreshY
    /\ k' = 1
    /\ v_pu' = <<>>
    /\ pc' = "backward"
    /\ calls_left' = calls_left - 1
    /\ m_pc' = "solving"
    /\ UNCHANGED <<data, m_nodes, root_found, ri, log, args, tables, ctorLocals, exc,
                   memo, s_final, y_final>>

\* main.py 101-107
MainPrint ==
    /\ m_pc = "solving"
    /\ Returned
    /\ log' = Append(log, <<"results", m_nodes[1]>>)
    /\ m_pc' = "done"
    /\ UNCHANGED <<data, m_nodes, root_found, ri,
                   args, tables, ctorLocals, solveArgs, solveLocals, pc, exc, history>>

Next ==
    \/ CtorLine \/ CtorTopoStart \/ CtorTopoStep \/ CtorFinish
    \/ SolveCall \/ BackwardStep \/ ForwardRoot \/ ForwardStep \/ Recover

Spec == Init /\ [][Next]_vars

\* one solver object, solve called up to MaxCalls times
RepeatDefects == {"none", "x_small"}
InitRepeat ==
    \E n \in 1..MaxNodes : \E ls \in LineLists(n, "coupled", RepeatDefects) :
        CtorEntry(NodeList(n), ls, <<2, 1>>, MaxCalls)

SpecRepeat == InitRepeat /\ [][Next]_vars

\* the constructor and solve are plain sequential code: a started call runs on
FairDefects == {"none", "dup"}
InitFair ==
    \E n \in 0..MaxNodes : \E ls \in LineLists(n, "coupled", FairDefects) :
        CtorEntry(NodeList(n), ls, <<2, 1>>, 1)
FairSpec == InitFair /\ [][Next]_vars /\ WF_vars(Next)

\* node lists of which a part may be out of the root's reach: a choice of
\* feeding buses, and optionally one more line, listed last, from the last bus
\* that no line feeds to the first bus fed by the root
StrayLine(n, i, j) ==
    [from |-> NodeList(n)[i], to |-> NodeList(n)[j],
     r_matrix |-> RMat("coupled", 1), x_matrix |-> XMat("coupled", 1)]
Strays(n, par) ==
    {ij \in (2..n) \X (2..n) :
        /\ par[ij[1]] = 0 /\ \A i \in (ij[1] + 1)..n : par[i] # 0
        /\ par[ij[2]] = 1 /\ \A j \in 2..(ij[2] - 1) : par[j] # 1}
\* a bus is fed by the root, by a neighbour in the node list, or by no bus
PartialParents(n) ==
    {par \in ParentChoices(n) : \A i \in 2..n : par[i] \in {0, 1, i - 1, i + 1}}
PartialLineLists(n) ==
    UNION {{LinesFrom(n, par, "coupled", 2)}
               \cup {LinesFrom(n, par, "coupled", 2) \o <<StrayLine(n, ij[1], ij[2])>> :
                        ij \in Strays(n, par)} :
           par \in PartialParents(n)}
InitPartial ==
    \E n \in 0..MaxPartial : \E ls \in PartialLineLists(n) :
        CtorEntry(NodeList(n), ls, <<2, 1>>, 1)
SpecPartial == InitPartial /\ [][Next]_vars /\ WF_vars(Next)

\* the command-line run: root selection, construction, one solve
NextMain ==
    \/ MainRootStep \/ MainRootsDone \/ MainWarn \/ MainConstruct \/ MainSolve \/ MainPrint
    \/ CtorLine \/ CtorTopoStart \/ CtorTopoStep \/ CtorFinish
    \/ BackwardStep \/ ForwardRoot \/ ForwardStep \/ Recover
SpecMain == InitMain /\ [][NextMain]_vars

\* ------------------------------------------------- the input as a graph
root == nodes[1]
KnownLine(l) == l.from \in Range(nodes) /\ l.to \in Range(nodes)
KnownLines == SelectSeq(lines, KnownLine)
HasUnknownLine == \E i \in 1..Len(lines) : ~KnownLine(lines[i])
InLines(n) == {i \in 1..Len(lines) : lines[i].to = n}

RECURSIVE ReachFrom(_)
ReachFrom(S) ==
    LET T == S \cup {lines[i].to : i \in {j \in 1..Len(lines) : lines[j].from \in S}}
    IN  IF T = S THEN S ELSE ReachFrom(T)

\* the lines form a tree over the node list, rooted at its first element
IsTree ==
    /\ nodes # <<>>
    /\ ~HasUnknownLine
    /\ InLines(root) = {}
    /\ \A n \in Range(nodes) \ {root} : Cardinality(InLines(n)) = 1
    /\ ReachFrom({root}) = Range(nodes)

TreeLine(n) == lines[CHOOSE i \in InLines(n) : TRUE]
TreeParent(n) == TreeLine(n).from
TreeChildren(n) == {c \in Range(nodes) \ {root} : TreeParent(c) = n}
Is3x3(m) == Rows(m) = 3 /\ \A i \in 1..3 : Len(m[i]) = 3
WellShaped == \A i \in 1..Len(lines) : Is3x3(lines[i].r_matrix) /\ Is3x3(lines[i].x_matrix)
CtorOver == pc \notin {"ctor_lines", "ctor_bfs"}

\* ------------------------------------------------------------ the claims
RefChildren ==
    [n \in Range(nodes) |->
        LET sel == SelectSeq(KnownLines, LAMBDA l : l.from = n)
        IN  [i \in 1..Len(sel) |-> sel[i].to]]
RefParents ==
    [n \in Range(nodes) |->
        LET sel == SelectSeq(KnownLines, LAMBDA l : l.to = n)
        IN  IF sel = <<>> THEN None ELSE sel[Len(sel)].from]

\* C1: a line whose 'from' or 'to' bus is not in the node list is silently
\* dropped: construction completes without raising, the line leaves no entry
\* in children, parents, the impedance table or the traversal order, and the
\* other lines are indexed as if it had not been supplied.
C1_UnknownLineDropped ==
    (HasUnknownLine /\ CtorOver) =>
        /\ pc # "failed"
        /\ children = RefChildren
        /\ parents = RefParents
        /\ DOMAIN line_params = {<<KnownLines[i].from, KnownLines[i].to>> :
                                    i \in 1..Len(KnownLines)}
        /\ UnknownBus \notin Range(order_down)

Called == Len(load_p_pu) = 3
LoadMismatch == Cols(load_p_pu) # n_nodes \/ Cols(load_q_pu) # n_nodes

\* C2: a malformed shape is always rejected: with a line whose r_matrix or
\* x_matrix is not 3x3, or load matrices that do not have exactly n_nodes
\* columns, no voltage result is returned (the call ends in an error).
C2_MalformedRejected ==
    Returned => (WellShaped /\ ~LoadMismatch)

\* per-unit matrices of the line that ends at n, from the constructor's input
LineR(n) == MatDiv(TreeLine(n).r_matrix, z_base)
LineX(n) == MatDiv(TreeLine(n).x_matrix, z_base)
NonZeroLoad == Called /\ \E ph \in 1..3 : \E j \in 1..Cols(load_p_pu) : load_p_pu[ph][j] # 0

C3_Values ==
    IsTree =>
        \A n \in y_final :
            IF n = root
            THEN Y_node[n] = [ph \in 1..3 |-> <<v_root_pu[ph] * v_root_pu[ph], 0>>]
            ELSE /\ TreeParent(n) \in y_final
                 /\ Y_node[n] = QVAdd(QVAdd(Y_node[TreeParent(n)],
                                            MatVec(calc_MP(LineR(n), LineX(n)), S_flow[n].re)),
                                      MatVec(calc_MQ(LineR(n), LineX(n)), S_flow[n].im))
C3_Order ==
    IsTree =>
        /\ \A n \in y_final' \ y_final : n # root => TreeParent(n) \in y_final
        /\ \A n \in y_final \cap y_final' : Y_node'[n] = Y_node[n]

\* C3: in the forward sweep over a tree every non-root node is evaluated
\* after its parent's YNode received its final value (the root's being the
\* root voltage squared), and is assigned YNode[parent] + M_P * Re(SFlow[node])
\* + M_Q * Im(SFlow[node]); an assigned value does not change afterwards.
C3_ForwardSweep == [](C3_Values) /\ [][C3_Order]_vars

C3_Witness ==
    /\ IsTree /\ Returned /\ NonZeroLoad
    /\ n_nodes = 3
    /\ TreeParent(nodes[2]) = nodes[3]
    /\ y_final = Range(nodes)
    /\ \E i \in 1..3 : \E j \in 1..3 : i # j /\ LineR(nodes[2])[i][j] # 0

RECURSIVE Descendants(_)
Descendants(S) ==
    LET T == S \cup UNION {TreeChildren(n) : n \in S}
    IN  IF T = S THEN S ELSE Descendants(T)

RECURSIVE SumLoads(_)
SumLoads(S) ==
    IF S = {} THEN CZero3
    ELSE LET n == CHOOSE x \in S : TRUE
         IN  CAdd(LoadColumn(node_map[n]), SumLoads(S \ {n}))

RECURSIVE SumOver(_, _)
SumOver(flow, S) ==
    IF S = {} THEN CZero3
    ELSE LET n == CHOOSE x \in S : TRUE
         IN  CAdd(flow[n], SumOver(flow, S \ {n}))

C4_Values ==
    IsTree =>
        \A n \in s_final :
            /\ TreeChildren(n) \subseteq s_final
            /\ S_flow[n] = CAdd(LoadColumn(node_map[n]), SumOver(S_flow, TreeChildren(n)))
            /\ S_flow[n] = SumLoads(Descendants({n}))
C4_Order ==
    IsTree =>
        /\ \A n \in s_final' \ s_final : TreeChildren(n) \subseteq s_final
        /\ \A n \in s_final \cap s_final' : S_flow'[n] = S_flow[n]

\* C4: after the backward sweep over a tree, SFlow[n] = load[n] + the sum of
\* SFlow[c] over the children c of n = the sum of the loads of the subtree of
\* n, each child finalized before its parent; the value depends on the set of
\* lines only, not on the order in which they are listed.
C4_BackwardSweep == [](C4_Values) /\ [][C4_Order]_vars

C4_Witness ==
    /\ IsTree /\ NonZeroLoad
    /\ pc = "forward"
    /\ s_final = Range(nodes)
    /\ Cardinality(TreeChildren(root)) = 2
    /\ lines[1].to = nodes[3]
    /\ S_flow[root] # LoadColumn(1)

ZeroLoad ==
    /\ Called
    /\ \A ph \in 1..3 : \A j \in 1..Cols(load_p_pu) : load_p_pu[ph][j] = 0
    /\ \A ph \in 1..3 : \A j \in 1..Cols(load_q_pu) : load_q_pu[ph][j] = 0

\* C5: with all loads zero, solve on a tree returns the root voltage on every
\* phase of every node, for every line impedance and every non-negative root
\* voltage (1 everywhere under the default).
C5_ZeroLoadKeepsRoot ==
    (IsTree /\ Returned /\ ZeroLoad) =>
        \A ph \in 1..3 : \A j \in 1..n_nodes :
            v_root_pu[ph] >= 0 =>
                v_pu[ph][j] = [nan |-> FALSE, exact |-> TRUE, val |-> <<v_root_pu[ph], 0>>]

C5_Witness ==
    /\ IsTree /\ Returned /\ ZeroLoad
    /\ n_nodes = 3
    /\ v_root_pu = <<10, 0, -8>>
    /\ TreeParent(nodes[2]) = nodes[3]
    /\ \E i \in 1..3 : \E j \in 1..3 : i # j /\ LineR(nodes[2])[i][j] # 0

DiagonalOnly(m) == Is3x3(m) /\ \A i \in 1..3 : \A j \in 1..3 : i # j => m[i][j] = 0
\* the load is on phase i of the node in column c, and nowhere else
SinglePhaseLoad(i, c) ==
    /\ Called /\ ~LoadMismatch
    /\ load_p_pu[i][c] # 0
    /\ \A ph \in 1..3 : \A j \in 1..n_nodes :
          (ph # i \/ j # c) => (load_p_pu[ph][j] = 0 /\ load_q_pu[ph][j] = 0)

\* C6: two nodes, a line with diagonal-only R and X, a load on one phase i of
\* the leaf: the leaf's squared voltage on phase i is
\* V_root[i]^2 - 2*R[i,i]*P[i] - 2*X[i,i]*Q[i] (per unit), and on the two
\* other phases it is the root's value.
C6_DiagonalDrop ==
    \A i \in 1..3 :
        (/\ IsTree /\ n_nodes = 2
         /\ DiagonalOnly(lines[1].r_matrix) /\ DiagonalOnly(lines[1].x_matrix)
         /\ SinglePhaseLoad(i, 2)
         /\ nodes[2] \in y_final)
        => \A ph \in 1..3 :
              Y_node[nodes[2]][ph] =
                  IF ph = i
                  THEN <<v_root_pu[i] * v_root_pu[i]
                           - 2 * (lines[1].r_matrix[i][i] \div z_base) * load_p_pu[i][2]
                           - 2 * (lines[1].x_matrix[i][i] \div z_base) * load_q_pu[i][2], 0>>
                  ELSE <<v_root_pu[ph] * v_root_pu[ph], 0>>

C6_Witness ==
    /\ IsTree /\ n_nodes = 2 /\ Returned
    /\ DiagonalOnly(lines[1].r_matrix) /\ DiagonalOnly(lines[1].x_matrix)
    /\ SinglePhaseLoad(1, 2)
    /\ v_root_pu = <<10, 0, -8>>
    /\ z_base = 4
    /\ Y_node[nodes[2]][1] = <<100 - 2 * 1 * 2 - 2 * 1 * 1, 0>>

\* C7: whenever the forward sweep leaves a negative squared voltage for a node
\* and phase, solve still returns and reports magnitude zero there; every
\* entry of the returned matrix is a non-negative number.
C7_ClampedAtZero ==
    Returned =>
        \A ph \in 1..3 : \A j \in 1..n_nodes :
            /\ ~v_pu[ph][j].nan
            /\ QSign(v_pu[ph][j].val) >= 0
            /\ QSign(Y_node[NodeAt(j)][ph]) < 0 =>
                  v_pu[ph][j] = [nan |-> FALSE, exact |-> TRUE, val |-> QZero]

C7_Witness ==
    /\ Returned
    /\ \E ph \in 1..3 : \E j \in 1..n_nodes :
          /\ QSign(Y_node[NodeAt(j)][ph]) < 0
          /\ Y_node[NodeAt(j)][ph][2] # 0
          /\ v_pu[ph][j].val = QZero
    /\ \E ph \in 1..3 : \E j \in 1..n_nodes : ~v_pu[ph][j].exact

\* the solver's tables are not written by solve
C8_TablesKept == (pc \in {"ready", "backward", "forward"}) => UNCHANGED tables
\* a finished call with the first call's arguments has the first call's outcome
C8_SameOutcome ==
    (pc = "ready" /\ memo # <<>> /\ SameAsFirst) => (exc = memo.exc /\ v_pu = memo.out)

\* C8: solve called again with the same arguments on the same solver gives the
\* same output, also with other calls in between; solve leaves the node index,
\* children, parents, impedance table and traversal orders unchanged.
C8_Idempotent == [](C8_SameOutcome) /\ [][C8_TablesKept]_vars

C8_Witness ==
    /\ Returned /\ NonZeroLoad
    /\ memo # <<>> /\ memo.varied /\ SameAsFirst
    /\ n_nodes = 3
    /\ ReachFrom({root}) # Range(nodes)

C9_Traversal ==
    IsTree =>
        /\ pc = "ctor_bfs" =>
              /\ \A i \in 1..Len(order) : \A j \in 1..Len(order) : order[i] = order[j] => i = j
              /\ \A i \in 1..Len(queue) : queue[i] \notin Range(order)
        /\ pc \in {"ready", "backward", "forward"} =>
              /\ queue = <<>>
              /\ Len(order_down) = n_nodes
              /\ Range(order_down) = Range(nodes)
              /\ order_up = Reverse(order_down)
        /\ pc = "backward" => (k <= n_nodes + 1 /\ s_final = {order_up[i] : i \in 1..(k - 1)})
        /\ pc = "forward" =>
              /\ s_final = Range(nodes)
              /\ k <= n_nodes + 1
              /\ y_final = {root} \cup {order_down[i] : i \in 1..(k - 1)}
C9_OneStep ==
    IsTree =>
        /\ (pc = "ctor_bfs" /\ pc' = "ctor_bfs") =>
              (Len(order') = Len(order) + 1 /\ order'[Len(order')] = Head(queue))
        /\ (pc = "backward" /\ pc' = "backward") => k' = k + 1
        /\ (pc = "forward" /\ pc' = "forward") => k' = k + 1

\* C9: on a tree, construction and solve terminate: the breadth-first
\* traversal dequeues every node exactly once and stops with an empty queue,
\* and each sweep makes one step per node of that order.
C9_Terminates ==
    /\ [](C9_Traversal)
    /\ [][C9_OneStep]_vars
    /\ (IsTree /\ pc \in {"ctor_lines", "ctor_bfs", "backward", "forward"}) ~> (pc = "ready")

C9_Witness ==
    /\ IsTree /\ Returned
    /\ n_nodes = 3
    /\ order_down = <<nodes[1], nodes[3], nodes[2]>>

Recognized(nl) == \E i \in 1..Len(possible_roots) : possible_roots[i] \in Range(nl)
FirstRecognized(nl) ==
    possible_roots[CHOOSE i \in 1..Len(possible_roots) :
        /\ possible_roots[i] \in Range(nl)
        /\ \A j \in 1..(i - 1) : possible_roots[j] \notin Range(nl)]
Warned == \E i \in 1..Len(log) : log[i][1] = "warning"
RootChecked == m_pc \notin {"off", "roots", "checked"}
SolverEntered == pc # "none"

\* the run warned, kept the node order and went on to the solver with it
KeptOrder ==
    /\ m_pc # "crashed"
    /\ Warned
    /\ m_nodes = data.nodes
    /\ SolverEntered => (nodes = data.nodes /\ nodes[1] = data.nodes[1])
    /\ order_down # <<>> => order_down[1] = data.nodes[1]
\* the best recognized root was moved to the front, the others kept their order
MovedRoot ==
    LET r == FirstRecognized(data.nodes)
    IN  /\ m_nodes = <<r>> \o SelectSeq(data.nodes, LAMBDA b : b # r)
        /\ ~Warned
        /\ SolverEntered => nodes = m_nodes

\* C10 as stated: with no recognized root identity in the loaded node list the
\* run emits a warning and proceeds to solve with the node order unchanged;
\* otherwise the first recognized identity in priority order is moved to index
\* 0 and the other nodes keep their relative order.
C10_AsStated ==
    RootChecked => IF Recognized(data.nodes) THEN MovedRoot ELSE KeptOrder

\* C10, amended: the same, for a node list that is not empty (an empty list
\* makes the warning itself fail, as it names nodes[0]).
C10_RootSelection ==
    (RootChecked /\ data.nodes # <<>>) =>
        IF Recognized(data.nodes) THEN MovedRoot ELSE KeptOrder

C10_Witness ==
    /\ m_pc = "done"
    /\ ~Recognized(data.nodes)
    /\ Len(data.nodes) = 2
    /\ Warned
    /\ Returned

\* ------------------------------------------- buses out of the root's reach
Reach == ReachFrom({root})
OutOfReach == Range(nodes) \ Reach

\* the buses in the root's reach form a tree: no line ends at the root and
\* exactly one line ends at each other bus in reach
ReachIsTree ==
    /\ nodes # <<>>
    /\ ~HasUnknownLine
    /\ InLines(root) = {}
    /\ \A n \in Reach \ {root} : Cardinality(InLines(n)) = 1
PartialInput == ReachIsTree /\ WellShaped /\ OutOfReach # {}

\* the arguments of the constructor and of solve without bus u: its entry in
\* the node list, the lines that name it and its load column
DropAt(s, j) == [i \in 1..(Len(s) - 1) |-> IF i < j THEN s[i] ELSE s[i + 1]]
Without(u) ==
    [nodes |-> SelectSeq(nodes, LAMBDA b : b # u),
     lines |-> SelectSeq(lines, LAMBDA l : l.from # u /\ l.to # u),
     p |-> [ph \in 1..3 |-> DropAt(load_p_pu[ph], node_map[u])],
     q |-> [ph \in 1..3 |-> DropAt(load_q_pu[ph], node_map[u])],
     v |-> v_root_pu,
     z |-> z_base]

\* what the constructor and solve compute from arguments in, for a bus n in
\* the reach of in.nodes[1] when that reach is a tree
InColumn(in, n) ==
    LET idx == NodeIndex(in.nodes)[n]
    IN  [re |-> [ph \in 1..3 |-> in.p[ph][idx]], im |-> [ph \in 1..3 |-> in.q[ph][idx]]]
InChildren(in, n) ==
    LET sel == SelectSeq(in.lines, LAMBDA l : l.from = n)
    IN  [i \in 1..Len(sel) |-> sel[i].to]
InLine(in, n) ==
    LET sel == SelectSeq(in.lines, LAMBDA l : l.to = n)
    IN  sel[Len(sel)]

RECURSIVE InFlow(_, _)
RECURSIVE InFlows(_, _)
InFlow(in, n) == CAdd(InColumn(in, n), InFlows(in, InChildren(in, n)))
InFlows(in, cs) ==
    IF cs = <<>> THEN CZero3 ELSE CAdd(InFlow(in, Head(cs)), InFlows(in, Tail(cs)))

RECURSIVE InY(_, _)
InY(in, n) ==
    IF n = in.nodes[1] THEN RootY(in.v)
    ELSE LET l == InLine(in, n)
         IN  ChildY(InY(in, l.from), MatDiv(l.r_matrix, in.z), MatDiv(l.x_matrix, in.z),
                    InFlow(in, n))
InVoltage(in, n) == [ph \in 1..3 |-> Magnitude(InY(in, n)[ph])]

\* the column of bus n in the returned matrix
Column(n) == [ph \in 1..3 |-> v_pu[ph][node_map[n]]]
ZeroMagnitude == [nan |-> FALSE, exact |-> TRUE, val |-> QZero]

C11_State ==
    PartialInput =>
        /\ pc # "failed"
        /\ \A u \in OutOfReach :
              u \notin Range(order) \cup Range(order_down) \cup Range(order_up)
        /\ Called => \A u \in OutOfReach : Y_node[u] = QZero3
        /\ (Called /\ ~LoadMismatch) => exc = "none"
        /\ Returned =>
              \A u \in OutOfReach : \A ph \in 1..3 : Column(u)[ph] = ZeroMagnitude
        /\ (Returned /\ ~LoadMismatch) =>
              \A u \in OutOfReach : \A n \in Reach : Column(n) = InVoltage(Without(u), n)
C11_Completes ==
    (/\ PartialInput
     /\ pc \in {"ctor_lines", "ctor_bfs", "backward", "forward"}
     /\ (Called => ~LoadMismatch))
        ~> (pc = "ready" /\ exc = "none")

\* C11: when the buses in the root's reach form a tree and a bus of the node
\* list is out of that reach (no line names it, or its lines stay among buses
\* out of reach), construction and solve end without error, the bus is in
\* neither traversal order, its YNode stays the zero vector, its column of the
\* result is 0 on the three phases whatever its load, and the column of every
\* bus in reach is the one solve returns when the bus, its lines and its load
\* column are left out of the arguments.
C11_OutOfReach == [](C11_State) /\ C11_Completes

C11_Witness ==
    /\ PartialInput /\ Returned /\ ~LoadMismatch
    /\ n_nodes = 4
    /\ OutOfReach = {nodes[2], nodes[3]}
    /\ \E i \in 1..Len(lines) : lines[i].from = nodes[2] /\ lines[i].to = nodes[3]
    /\ load_p_pu[1][2] # 0
    /\ Column(nodes[4]) # Column(root)

====
